---- MODULE Spec2Model ----
(***************************************************************************)
(* A model of the python-mini-projects repository: the number-guessing     *)
(* game, the dice-rolling game, and the load / filter / aggregate steps of *)
(* the two Streamlit dashboards (dash.py, dashboard.py) together with the  *)
(* area filter of the checkpointed ML dashboard.                           *)
(*                                                                         *)
(* Each program is a sequential script; there is one specification per     *)
(* program part (SpecGuess, SpecDice, SpecLoad, SpecFilter, SpecAgg).  The  *)
(* variables of the other parts stay at their idle values.                 *)
(*                                                                         *)
(* Text read from the terminal is a sequence of one-character strings.     *)
(***************************************************************************)
EXTENDS Integers, Sequences, FiniteSets, TLC

VARIABLES
    \* number_gussing_game.py
    random_num, guessed_number, g_read, g_out, g_pc,
    \* dice_rolling_game.py
    roll_count, choice, choice_num, dice_result, d_out, d_pc,
    \* load_data() of dash.py and dashboard.py, and the script after it
    script, csv, df, l_done, err,
    \* the sidebar and the filter of dash.py and of dash-checkpoint.py
    selected_areas, selected_prop_types, price_range, date_range, filtered_df,
    f_pc,
    \* the location filter and the top-N aggregation of dashboard.py
    selected_locations, df_filtered, top_n, sort_in, sort_out, avg_rent,
    avg_rent_again, a_pc

guessVars == <<random_num, guessed_number, g_read, g_out, g_pc>>
diceVars == <<roll_count, choice, choice_num, dice_result, d_out, d_pc>>
loadVars == <<script, csv, df, l_done, err>>
filterVars ==
    <<selected_areas, selected_prop_types, price_range, date_range, filtered_df, f_pc>>
aggVars ==
    <<selected_locations, df_filtered, top_n, sort_in, sort_out, avg_rent,
      avg_rent_again, a_pc>>
vars == <<guessVars, diceVars, loadVars, filterVars, aggVars>>

\* What each program leaves alone: the other programs' variables.
notGuess == <<diceVars, loadVars, filterVars, aggVars>>
notDice == <<guessVars, loadVars, filterVars, aggVars>>
notLoad == <<guessVars, diceVars, filterVars, aggVars>>
notFilter == <<guessVars, diceVars, aggVars, script, csv, df, l_done, err>>
notAgg == <<guessVars, diceVars, filterVars, script, csv, df, l_done, err>>

\* ------------------------------------------------------------------ bounds

\* Guesses typed as plain decimal numbers range over 0..GuessMax.
GuessMax == 101
\* Dice counts typed as plain decimal numbers range over 0..MaxDice.
MaxDice == 3
\* The dice game is followed for at most MaxRolls rolls.
MaxRolls == 2
\* A CSV file read by load_data() has at most MaxLoadRows rows.
MaxLoadRows == 2
\* A table handed to the sidebar and the filter has at most MaxFilterRows rows.
MaxFilterRows == 2
\* The most rows of the table that is aggregated.
MaxAggRows == 3
\* The largest N of "top N".
MaxTopN == 2

\* ------------------------------------------------------- program constants

\* random.randint(1, 100)
TargetMin == 1
TargetMax == 100
\* random.randint(1, 6)
DieMin == 1
DieMax == 6

\* ------------------------------------------------------------ int(input())

DigitVal ==
    [c \in {"0", "1", "2", "3", "4", "5", "6", "7", "8", "9"} |->
        CASE c = "0" -> 0 [] c = "1" -> 1 [] c = "2" -> 2 [] c = "3" -> 3
          [] c = "4" -> 4 [] c = "5" -> 5 [] c = "6" -> 6 [] c = "7" -> 7
          [] c = "8" -> 8 [] c = "9" -> 9]

DigitChar == <<"0", "1", "2", "3", "4", "5", "6", "7", "8", "9">>

IsDigit(c) == c \in DOMAIN DigitVal

\* str(n) for n >= 0: the decimal digits, most significant first.
RECURSIVE NatToStr(_)
NatToStr(n) ==
    IF n < 10 THEN <<DigitChar[n + 1]>>
    ELSE Append(NatToStr(n \div 10), DigitChar[(n % 10) + 1])

\* str.strip(): leading and trailing blanks removed.
RECURSIVE LStrip(_)
LStrip(s) == IF Len(s) > 0 /\ s[1] = " " THEN LStrip(Tail(s)) ELSE s

RECURSIVE RStrip(_)
RStrip(s) ==
    IF Len(s) > 0 /\ s[Len(s)] = " " THEN RStrip(SubSeq(s, 1, Len(s) - 1)) ELSE s

Strip(s) == RStrip(LStrip(s))

\* The digits of an int literal: at least one digit, digits possibly
\* separated by single underscores, no underscore first or last.
WellFormedDigits(s) ==
    /\ Len(s) > 0
    /\ IsDigit(s[1])
    /\ IsDigit(s[Len(s)])
    /\ \A i \in 1..Len(s) : IsDigit(s[i]) \/ s[i] = "_"
    /\ \A i \in 1..(Len(s) - 1) : ~(s[i] = "_" /\ s[i + 1] = "_")

RECURSIVE DigitsValue(_, _)
DigitsValue(s, acc) ==
    IF s = <<>> THEN acc
    ELSE IF s[1] = "_" THEN DigitsValue(Tail(s), acc)
    ELSE DigitsValue(Tail(s), 10 * acc + DigitVal[s[1]])

ValueError == [ok |-> FALSE, val |-> 0]

\* int(text): blanks stripped, an optional sign, then the digits; anything
\* else raises ValueError.
ParseInt(s) ==
    LET t == Strip(s)
        signed == Len(t) > 0 /\ t[1] \in {"+", "-"}
        body == IF signed THEN Tail(t) ELSE t
    IN  IF WellFormedDigits(body)
        THEN [ok |-> TRUE,
              val |-> IF signed /\ t[1] = "-"
                      THEN 0 - DigitsValue(body, 0)
                      ELSE DigitsValue(body, 0)]
        ELSE ValueError

\* Lines a user may type that are not plain decimal numbers: some are still
\* integers for int(), the others are not.
OddInputs ==
    { <<>>, <<"a">>, <<"5", ".", "5">>, <<"-">>, <<"1", "a">>, <<"5", "_">>,
      <<"-", "1">>, <<"+", "7", "0">>, <<" ", "5", "0", " ">>,
      <<"0", "3", "0">>, <<"3", "_", "0">> }

\* ------------------------------------------------- number_gussing_game.py

TooHigh == "Too high"
TooLow == "Too low"
Bravo == "Bravo, you did it right!"
InvalidNumber == "Please enter a valid number"
NoOutput == ""
\* g_read: what the line last read was, "int" (int() converted it) or
\* "other" (int() raised ValueError); NothingRead before the first line.
NothingRead == "nothing"
\* guessed_number before the first successful int(input(...)).
Unbound == TargetMin - 1000

GuessInputs == {NatToStr(n) : n \in 0..GuessMax} \cup OddInputs

GreaterWrong(a, b) == a >= b

\* guessed_number > random_num
Greater(a, b) == a > b

InitGuess ==
    /\ random_num \in TargetMin..TargetMax
    /\ guessed_number = Unbound
    /\ g_read = NothingRead
    /\ g_out = NoOutput
    /\ g_pc = "loop"

\* One pass of the while loop: read a line, convert, compare, print.
Guess(line) ==
    /\ g_pc = "loop"
    /\ LET r == ParseInt(line)
       IN  IF ~r.ok
           THEN /\ g_out' = InvalidNumber
                /\ g_read' = "other"
                /\ UNCHANGED <<guessed_number, g_pc>>
           ELSE /\ guessed_number' = r.val
                /\ g_read' = "int"
                /\ IF Greater(r.val, random_num)
                   THEN g_out' = TooHigh /\ g_pc' = "loop"
                   ELSE IF r.val < random_num
                   THEN g_out' = TooLow /\ g_pc' = "loop"
                   ELSE g_out' = Bravo /\ g_pc' = "done"
    /\ UNCHANGED <<random_num, notGuess>>

IdleGuess ==
    /\ random_num = TargetMin
    /\ guessed_number = Unbound
    /\ g_read = NothingRead
    /\ g_out = NoOutput
    /\ g_pc = "idle"

NextGuess == \E line \in GuessInputs : Guess(line)

\* --------------------------------------------------- dice_rolling_game.py

LowerChar(c) ==
    CASE c = "Y" -> "y" [] c = "N" -> "n" [] c = "E" -> "e" [] c = "S" -> "s"
      [] OTHER -> c

\* str.lower()
Lower(s) == [i \in DOMAIN s |-> LowerChar(s[i])]

ChoiceInputs ==
    { <<"y">>, <<"Y">>, <<"n">>, <<"N">>, <<"q">>, <<>>, <<"Y", "E", "S">> }

\* Lines typed at the dice prompt that are not plain decimal numbers.
OddDiceInputs ==
    { <<>>, <<"a">>, <<"2", ".", "5">>, <<"-">>, <<"1", "a">>, <<"2", "_">>,
      <<"-", "1">>, <<"-", "2">>, <<"+", "2">>, <<" ", "1", " ">>, <<"0", "2">> }

DiceInputs == {NatToStr(n) : n \in 0..MaxDice} \cup OddDiceInputs

RangeOffByOne(n) == 0..n

\* range(n)
Range(n) == 0..(n - 1)

RECURSIVE SumSeq(_)
\* sum(list)
SumSeq(s) == IF s = <<>> THEN 0 ELSE s[1] + SumSeq(Tail(s))

NoLine == [msg |-> "", rolled |-> <<>>, total |-> 0]
NoChoiceNum == 0 - 1000

InitDice ==
    /\ roll_count = 0
    /\ choice = <<>>
    /\ choice_num = NoChoiceNum
    /\ dice_result = <<>>
    /\ d_out = NoLine
    /\ d_pc = "choice"

\* input("Roll the dice? (y/n): ").lower() and the branch taken on it.
AskRoll(line) ==
    /\ d_pc = "choice"
    /\ choice' = Lower(line)
    /\ IF choice' = <<"y">>
       THEN /\ roll_count < MaxRolls
            /\ roll_count' = roll_count + 1
            /\ d_pc' = "howmany"
            /\ UNCHANGED d_out
       ELSE IF choice' = <<"n">>
       THEN /\ d_out' = [NoLine EXCEPT !.msg = "Thanks for playing!"]
            /\ d_pc' = "done"
            /\ UNCHANGED roll_count
       ELSE /\ d_out' = [NoLine EXCEPT !.msg = "Invalid choice! Please enter y or n."]
            /\ d_pc' = "choice"
            /\ UNCHANGED roll_count
    /\ UNCHANGED <<choice_num, dice_result, notDice>>

\* int(input("How many dice do you want to roll? ")) and the roll.  The
\* conversion is not inside a try: a ValueError ends the program.
HowMany(line) ==
    /\ d_pc = "howmany"
    /\ LET r == ParseInt(line)
       IN  IF ~r.ok
           THEN /\ d_pc' = "crashed"
                /\ d_out' = [NoLine EXCEPT !.msg = "ValueError"]
                /\ UNCHANGED <<choice_num, dice_result>>
           ELSE /\ choice_num' = r.val
                /\ \E rolls \in [1..Cardinality(Range(r.val)) -> DieMin..DieMax] :
                       dice_result' = rolls
                /\ d_out' = [msg |-> "You Rolled:", rolled |-> dice_result',
                             total |-> SumSeq(dice_result')]
                /\ d_pc' = "choice"
    /\ UNCHANGED <<roll_count, choice, notDice>>

IdleDice ==
    /\ roll_count = 0
    /\ choice = <<>>
    /\ choice_num = NoChoiceNum
    /\ dice_result = <<>>
    /\ d_out = NoLine
    /\ d_pc = "idle"

NextDice ==
    \/ \E line \in ChoiceInputs : AskRoll(line)
    \/ \E line \in DiceInputs : HowMany(line)

\* -------------------------------------------------- cells of a data frame

\* A float64 cell: a number n/d (d > 0, in lowest terms), NaN, or +-inf.
NaN == [k |-> "nan"]
PInf == [k |-> "inf", sign |-> 1]
NInf == [k |-> "inf", sign |-> 0 - 1]
\* A text cell (object dtype).
Text(t) == [k |-> "str", text |-> t]
\* A datetime64 cell: a Timestamp, or NaT.
Timestamp(day, hour) == [k |-> "ts", day |-> day, hour |-> hour]
NaT == [k |-> "nat"]

Abs(x) == IF x < 0 THEN 0 - x ELSE x
Sign(x) == IF x < 0 THEN 0 - 1 ELSE 1

RECURSIVE Gcd(_, _)
Gcd(a, b) == IF b = 0 THEN a ELSE Gcd(b, a % b)

\* The float n/d, d # 0.
Num(n, d) ==
    LET g == Gcd(Abs(n), Abs(d))
    IN  [k |-> "num", n |-> (Sign(d) * n) \div g, d |-> Abs(d) \div g]

IsNum(x) == x.k = "num"
IsZero(x) == x.k = "num" /\ x.n = 0
Inf(sign) == IF sign < 0 THEN NInf ELSE PInf
\* The sign of a float that is not NaN; zero counts as positive.
SignOf(x) == IF x.k = "inf" THEN x.sign ELSE Sign(x.n)

FDivZeroIsNaN(a, b) ==
    IF a.k = "nan" \/ b.k = "nan" \/ IsZero(b) THEN NaN
    ELSE IF a.k = "inf" /\ b.k = "inf" THEN NaN
    ELSE IF a.k = "inf" THEN Inf(a.sign * SignOf(b))
    ELSE IF b.k = "inf" THEN Num(0, 1)
    ELSE Num(a.n * b.d, a.d * b.n)

\* a / b on float64 columns (numpy true division, errors ignored): x/0 is
\* +-inf for x # 0 and NaN for x = 0; NaN propagates; nothing is raised.
FDiv(a, b) ==
    IF a.k = "nan" \/ b.k = "nan" THEN NaN
    ELSE IF a.k = "inf" /\ b.k = "inf" THEN NaN
    ELSE IF a.k = "inf" THEN Inf(a.sign * SignOf(b))
    ELSE IF b.k = "inf" THEN Num(0, 1)
    ELSE IF b.n = 0 THEN (IF a.n = 0 THEN NaN ELSE Inf(Sign(a.n)))
    ELSE Num(a.n * b.d, a.d * b.n)

\* a * b on float64.
FMul(a, b) ==
    IF a.k = "nan" \/ b.k = "nan" THEN NaN
    ELSE IF a.k = "inf" \/ b.k = "inf"
    THEN (IF IsZero(a) \/ IsZero(b) THEN NaN ELSE Inf(SignOf(a) * SignOf(b)))
    ELSE Num(a.n * b.n, a.d * b.d)

\* a + b on float64.
FAdd(a, b) ==
    IF a.k = "nan" \/ b.k = "nan" THEN NaN
    ELSE IF a.k = "inf" /\ b.k = "inf" THEN (IF a.sign = b.sign THEN a ELSE NaN)
    ELSE IF a.k = "inf" THEN a
    ELSE IF b.k = "inf" THEN b
    ELSE Num(a.n * b.d + b.n * a.d, a.d * b.d)

FNeg(a) ==
    IF a.k = "nan" THEN NaN
    ELSE IF a.k = "inf" THEN Inf(0 - a.sign)
    ELSE Num(0 - a.n, a.d)

\* a - b on float64.
FSub(a, b) == FAdd(a, FNeg(b))

\* pd.to_datetime(column, errors='coerce') on one cell: a text that is a
\* date becomes its Timestamp, every other cell becomes NaT.
ToDatetime(cell) ==
    IF cell.k # "str" THEN NaT
    ELSE CASE cell.text = "2025-01-01" -> Timestamp(1, 0)
           [] cell.text = "2025-01-02 18:30" -> Timestamp(2, 18)
           [] OTHER -> NaT

\* Series.isna() on one cell.
IsNA(cell) == cell.k \in {"nan", "nat"}

UpperChar(c) == CASE c = "a" -> "A" [] c = "b" -> "B" [] OTHER -> c
LowerLetter(c) == CASE c = "A" -> "a" [] c = "B" -> "b" [] OTHER -> c
IsLetter(c) == c \in {"a", "b", "A", "B"}

\* str.title(): the first letter of every word in upper case, the other
\* letters in lower case.
Title(s) ==
    [i \in DOMAIN s |->
        IF i = 1 \/ ~IsLetter(s[i - 1]) THEN UpperChar(s[i]) ELSE LowerLetter(s[i])]

\* df["Location"].str.strip().str.title() on one cell.
StripTitle(cell) ==
    IF cell.k # "str" THEN cell ELSE Text(Title(Strip(cell.text)))

\* ------------------------------------------------------------- the scripts

Scripts == {"dash", "dashboard"}

\* The statements of each script that read columns of the CSV file, in
\* program order, with the columns each reads in the order it reads them.
Steps(sc) ==
    IF sc = "dash"
    THEN << [name |-> "load_data",
             reads |-> <<"INSTANCE_DATE", "TRANS_VALUE", "PROCEDURE_AREA">>],
            [name |-> "sidebar",
             reads |-> <<"AREA_EN", "PROP_TYPE_EN", "TRANS_VALUE", "INSTANCE_DATE">>],
            [name |-> "filter",
             reads |-> <<"AREA_EN", "PROP_TYPE_EN", "TRANS_VALUE", "INSTANCE_DATE">>],
            [name |-> "aggregate", reads |-> <<"TRANS_VALUE", "AREA_EN">>],
            [name |-> "charts",
             reads |-> <<"INSTANCE_DATE", "PROP_TYPE_EN", "TRANS_VALUE",
                         "PROCEDURE_AREA", "ACTUAL_AREA">>] >>
    ELSE << [name |-> "load_data",
             reads |-> <<"Rent", "Area_in_sqft", "Location", "Posted_date">>],
            [name |-> "sidebar", reads |-> <<"Location">>],
            [name |-> "filter", reads |-> <<"Location">>],
            [name |-> "aggregate", reads |-> <<"Rent", "Area_in_sqft", "Location">>],
            [name |-> "charts", reads |-> <<"Beds", "Posted_date">>] >>

SeqRange(s) == {s[i] : i \in DOMAIN s}

\* The columns a script reads from its CSV file.
RequiredColumns(sc) ==
    UNION {SeqRange(Steps(sc)[i].reads) : i \in DOMAIN Steps(sc)}

\* The columns of `reads` the file lacks, in reading order.
Missing(reads, cols) == SelectSeq(reads, LAMBDA c : c \notin cols)

NoError == [kind |-> "none", columns |-> {}]
KeyError(columns) == [kind |-> "KeyError", columns |-> columns]

\* df[c] raises KeyError(c) for the first absent column it reaches.
FirstMissing(reads, cols) == KeyError({Head(Missing(reads, cols))})

\* df.dropna(subset=[...]) raises one KeyError listing every absent column.
AllMissing(reads, cols) == KeyError(SeqRange(Missing(reads, cols)))

\* The rows of transactions-2025-12-20.csv as pd.read_csv returns them.
DashRows ==
    { [TRANS_VALUE |-> v, PROCEDURE_AREA |-> a, INSTANCE_DATE |-> d,
       AREA_EN |-> Text("Marina"), PROP_TYPE_EN |-> Text("Villa"),
       ACTUAL_AREA |-> a] :
        v \in {NaN, Num(0, 1), Num(3, 1)},
        a \in {NaN, Num(0, 1), Num(2, 1)},
        d \in {NaN, Text("soon"), Text("2025-01-02 18:30")} }

\* The rows of dubai_properties.csv as pd.read_csv returns them.
BoardRows ==
    { [Rent |-> v, Area_in_sqft |-> a, Posted_date |-> d, Location |-> l,
       Beds |-> Num(1, 1)] :
        v \in {NaN, Num(0, 1), Num(3, 1)},
        a \in {NaN, Num(0, 1), Num(2, 1)},
        d \in {NaN, Text("soon"), Text("2025-01-01")},
        l \in {NaN, Text(<<" ", "a", "B", " ", "b">>)} }

RawRows(sc) == IF sc = "dash" THEN DashRows ELSE BoardRows

SeqsUpTo(S, n) == UNION {[1..m -> S] : m \in 0..n}

Restrict(r, cols) == [c \in cols |-> r[c]]

\* yield_est and appreciation_est of dash.py
YieldEst == Num(65, 1000)
AppreciationEst == Num(156, 1000)
Twenty == Num(20, 1)

\* The columns load_data() of dash.py sets on one row.
DashDerive(r) ==
    LET date == ToDatetime(r.INSTANCE_DATE)
        meter_price == FDiv(r.TRANS_VALUE, r.PROCEDURE_AREA)
        roi_est == FSub(FAdd(YieldEst, AppreciationEst),
                        FDiv(FDiv(Twenty, r.PROCEDURE_AREA), meter_price))
    IN  [c \in DOMAIN r \cup {"meter_price", "yield_est", "appreciation_est", "roi_est"} |->
            CASE c = "INSTANCE_DATE" -> date
              [] c = "meter_price" -> meter_price
              [] c = "yield_est" -> YieldEst
              [] c = "appreciation_est" -> AppreciationEst
              [] c = "roi_est" -> roi_est
              [] OTHER -> r[c]]

\* load_data() of dash.py on a file with every column it reads: no row is
\* dropped.
DashLoad(rows) == [i \in DOMAIN rows |-> DashDerive(rows[i])]

\* df.dropna(subset=columns)
DropNA(rows, columns) ==
    SelectSeq(rows, LAMBDA r : \A c \in columns : ~IsNA(r[c]))

\* df["Location"] = ...str.strip().str.title() and
\* df["Posted_date"] = pd.to_datetime(..., errors='coerce') on one row.
BoardClean(r) ==
    [r EXCEPT !.Location = StripTitle(@), !.Posted_date = ToDatetime(@)]

\* df = df.dropna(subset=["Posted_date"])
DropMissingDates(rows) == DropNA(rows, {"Posted_date"})

\* df["ROI"] = (df["Rent"] * 12 / df["Area_in_sqft"]) * 100 on one row.
BoardROI(r) ==
    [c \in DOMAIN r \cup {"ROI"} |->
        IF c = "ROI"
        THEN FMul(FDiv(FMul(r.Rent, Num(12, 1)), r.Area_in_sqft), Num(100, 1))
        ELSE r[c]]

\* load_data() of dashboard.py on a file with every column it reads.
BoardLoad(rows) ==
    LET kept == DropNA(rows, {"Rent", "Area_in_sqft", "Location", "Posted_date"})
        cleaned == [i \in DOMAIN kept |-> BoardClean(kept[i])]
        valid == DropMissingDates(cleaned)
    IN  [i \in DOMAIN valid |-> BoardROI(valid[i])]

InitLoad ==
    /\ script \in Scripts
    /\ \/ /\ csv \in [cols : {RequiredColumns(script)},
                      rows : SeqsUpTo(RawRows(script), MaxLoadRows)]
       \/ \E cols \in SUBSET RequiredColumns(script), r \in RawRows(script) :
             /\ cols # RequiredColumns(script)
             /\ csv = [cols |-> cols, rows |-> <<Restrict(r, cols)>>]
    /\ df = <<>>
    /\ l_done = <<>>
    /\ err = NoError

Running == err = NoError /\ Len(l_done) < Len(Steps(script))
NextStep == Steps(script)[Len(l_done) + 1]

\* df = load_data(): the module-level df is bound only when load_data()
\* returns; a KeyError inside it ends the run.
LoadData ==
    /\ Running
    /\ NextStep.name = "load_data"
    /\ IF Missing(NextStep.reads, csv.cols) # <<>>
       THEN /\ err' = IF script = "dash"
                      THEN FirstMissing(NextStep.reads, csv.cols)
                      ELSE AllMissing(NextStep.reads, csv.cols)
            /\ UNCHANGED <<df, l_done>>
       ELSE /\ df' = IF script = "dash" THEN DashLoad(csv.rows) ELSE BoardLoad(csv.rows)
            /\ l_done' = Append(l_done, "load_data")
            /\ UNCHANGED err
    /\ UNCHANGED <<script, csv, notLoad>>

\* A later statement of the script: it runs on the loaded df, and a column
\* it reads that the file lacks raises KeyError there.  (What the filter and
\* the aggregation compute on the rows is followed under SpecFilter and
\* SpecAgg.)
RunStep ==
    /\ Running
    /\ NextStep.name # "load_data"
    /\ IF Missing(NextStep.reads, csv.cols) # <<>>
       THEN /\ err' = FirstMissing(NextStep.reads, csv.cols)
            /\ UNCHANGED l_done
       ELSE /\ l_done' = Append(l_done, NextStep.name)
            /\ UNCHANGED err
    /\ UNCHANGED <<script, csv, df, notLoad>>

IdleLoad ==
    /\ script = "none"
    /\ csv = [cols |-> {}, rows |-> <<>>]
    /\ df = <<>>
    /\ l_done = <<>>
    /\ err = NoError

NextLoad == LoadData \/ RunStep

\* ------------------------------------------ dash.py: sidebar and filter

\* The rows of the transactions CSV that the filter tells apart.
FilterRows ==
    { [TRANS_VALUE |-> v, PROCEDURE_AREA |-> Num(2, 1), INSTANCE_DATE |-> d,
       AREA_EN |-> a, PROP_TYPE_EN |-> t, ACTUAL_AREA |-> Num(2, 1)] :
        v \in {Num(1, 1), Num(2, 1)},
        d \in {Text("soon"), Text("2025-01-01"), Text("2025-01-02 18:30")},
        a \in {NaN, Text("Jbr"), Text("Marina")},
        t \in {NaN, Text("Villa")} }

\* The rows of an uploaded CSV that the checkpointed dashboard's area filter
\* tells apart.
CheckpointRows ==
    { [TRANS_VALUE |-> v, PROCEDURE_AREA |-> Num(2, 1),
       INSTANCE_DATE |-> Text("2025-01-01"), AREA_EN |-> a] :
        v \in {Num(1, 1), Num(2, 1)},
        a \in {NaN, Text("Jbr"), Text("Marina")} }

\* Dates the date_input widget can return.
Days == {1, 2}
\* Values the slider can return.
SliderValues == {Num(1, 1), Num(2, 1)}

Column(rows, c) == [i \in DOMAIN rows |-> rows[i][c]]

\* a <= b on float64: false when either is NaN.
FLe(a, b) ==
    IF a.k = "nan" \/ b.k = "nan" THEN FALSE
    ELSE IF a.k = "inf" THEN (a.sign < 0 \/ a = b)
    ELSE IF b.k = "inf" THEN b.sign > 0
    ELSE a.n * b.d <= b.n * a.d

\* sorted(column.dropna().unique()), as the set of its values.
Observed(rows, c) == {rows[i][c] : i \in DOMAIN rows} \ {NaN, NaT}

\* column.min() and column.max(): missing cells are skipped.
ColMin(rows, c) ==
    CHOOSE x \in Observed(rows, c) : \A y \in Observed(rows, c) : FLe(x, y)
ColMax(rows, c) ==
    CHOOSE x \in Observed(rows, c) : \A y \in Observed(rows, c) : FLe(y, x)

\* Timestamp.date() / Series.dt.date on one cell.
DateOf(cell) == IF cell.k = "ts" THEN [k |-> "date", day |-> cell.day] ELSE NaT

MinDate(rows) ==
    LET ds == {DateOf(x).day : x \in Observed(rows, "INSTANCE_DATE")}
    IN  CHOOSE d \in ds : \A e \in ds : d <= e
MaxDate(rows) ==
    LET ds == {DateOf(x).day : x \in Observed(rows, "INSTANCE_DATE")}
    IN  CHOOSE d \in ds : \A e \in ds : e <= d

\* Series.isin(values)
IsIn(col, values) == [i \in DOMAIN col |-> col[i] \in values]

BetweenExclusive(col, lo, hi) ==
    [i \in DOMAIN col |-> FLe(lo, col[i]) /\ FLe(col[i], hi) /\ col[i] # lo /\ col[i] # hi]

\* Series.between(lo, hi): inclusive="both"
Between(col, lo, hi) == [i \in DOMAIN col |-> FLe(lo, col[i]) /\ FLe(col[i], hi)]

\* Series.dt.date >= d and Series.dt.date <= d: false for NaT
DateGE(col, d) ==
    [i \in DOMAIN col |-> DateOf(col[i]).k = "date" /\ DateOf(col[i]).day >= d]
DateLE(col, d) ==
    [i \in DOMAIN col |-> DateOf(col[i]).k = "date" /\ DateOf(col[i]).day <= d]

\* mask & mask
And(m1, m2) == [i \in DOMAIN m1 |-> m1[i] /\ m2[i]]

\* df[mask]: the rows whose mask is True, each with its index label, in order.
RECURSIVE Take(_, _, _)
Take(rows, mask, i) ==
    IF i > Len(rows) THEN <<>>
    ELSE IF mask[i] THEN <<[index |-> i, row |-> rows[i]]>> \o Take(rows, mask, i + 1)
    ELSE Take(rows, mask, i + 1)

BoolIndex(rows, mask) == Take(rows, mask, 1)

\* filtered_df of dash.py
FilteredDf(rows, areas, types, prices, dates) ==
    BoolIndex(rows,
        And(And(And(And(IsIn(Column(rows, "AREA_EN"), areas),
                        IsIn(Column(rows, "PROP_TYPE_EN"), types)),
                    Between(Column(rows, "TRANS_VALUE"), prices[1], prices[2])),
                DateGE(Column(rows, "INSTANCE_DATE"), dates[1])),
            DateLE(Column(rows, "INSTANCE_DATE"), dates[2])))

\* filtered_df of dash-checkpoint.py: df.copy(), narrowed only when the
\* multiselect returned something.
CheckpointFilteredDf(rows, area_filter) ==
    IF area_filter # {}
    THEN BoolIndex(rows, IsIn(Column(rows, "AREA_EN"), area_filter))
    ELSE BoolIndex(rows, [i \in DOMAIN rows |-> TRUE])

NoRange == <<>>

\* The scripts just after df = load_data().
InitFilter ==
    /\ script \in {"dash", "checkpoint"}
    /\ df \in IF script = "dash"
              THEN {DashLoad(rows) : rows \in SeqsUpTo(FilterRows, MaxFilterRows)}
              ELSE SeqsUpTo(CheckpointRows, MaxFilterRows)
    /\ csv = [cols |-> {}, rows |-> <<>>]
    /\ l_done = <<"load_data">>
    /\ err = NoError
    /\ selected_areas = {}
    /\ selected_prop_types = {}
    /\ price_range = NoRange
    /\ date_range = NoRange
    /\ filtered_df = <<>>
    /\ f_pc = "sidebar"

\* The sidebar needs a smallest and a largest value and date.
SidebarDefined ==
    /\ Observed(df, "TRANS_VALUE") # {}
    /\ Observed(df, "INSTANCE_DATE") # {}

\* dash.py lines 50-79: the widgets return the user's choices and the filter
\* is applied.
ApplyFilters ==
    /\ f_pc = "sidebar"
    /\ script = "dash"
    /\ SidebarDefined
    /\ \E areas \in SUBSET Observed(df, "AREA_EN"),
          types \in SUBSET Observed(df, "PROP_TYPE_EN"),
          lo \in SliderValues, hi \in SliderValues, d1 \in Days, d2 \in Days :
          /\ FLe(ColMin(df, "TRANS_VALUE"), lo) /\ FLe(lo, hi)
          /\ FLe(hi, ColMax(df, "TRANS_VALUE"))
          /\ d1 <= d2
          /\ selected_areas' = areas
          /\ selected_prop_types' = types
          /\ price_range' = <<lo, hi>>
          /\ date_range' = <<d1, d2>>
          /\ filtered_df' = FilteredDf(df, areas, types, <<lo, hi>>, <<d1, d2>>)
    /\ f_pc' = "filtered"
    /\ UNCHANGED notFilter

\* dash.py line 70 while the user has picked only the first date of the
\* range: date_range holds one date and date_range[1] raises IndexError.
PickStartDateOnly ==
    /\ f_pc = "sidebar"
    /\ script = "dash"
    /\ SidebarDefined
    /\ \E d1 \in Days : date_range' = <<d1>>
    /\ f_pc' = "error"
    /\ UNCHANGED <<selected_areas, selected_prop_types, price_range, filtered_df, notFilter>>

\* dash-checkpoint.py lines 41-48
CheckpointFilter ==
    /\ f_pc = "sidebar"
    /\ script = "checkpoint"
    /\ \E area_filter \in SUBSET {df[i].AREA_EN : i \in DOMAIN df} :
          /\ selected_areas' = area_filter
          /\ filtered_df' = CheckpointFilteredDf(df, area_filter)
    /\ f_pc' = "filtered"
    /\ UNCHANGED <<selected_prop_types, price_range, date_range, notFilter>>

IdleFilter ==
    /\ selected_areas = {}
    /\ selected_prop_types = {}
    /\ price_range = NoRange
    /\ date_range = NoRange
    /\ filtered_df = <<>>
    /\ f_pc = "idle"

NextFilter == ApplyFilters \/ PickStartDateOnly \/ CheckpointFilter

\* ------------------------------------------- dashboard.py: the aggregation

\* The rows of dubai_properties.csv used for the aggregation: three
\* locations once cleaned ("A", "Ab", "B") and two rents, so that groups of
\* several rows and groups with equal means occur.
AggRows ==
    { [Rent |-> v, Area_in_sqft |-> Num(2, 1), Posted_date |-> Text("2025-01-01"),
       Location |-> l, Beds |-> Num(1, 1)] :
        v \in {Num(1, 1), Num(2, 1)},
        l \in {Text(<<"a">>), Text(<<"B", " ">>), Text(<<"a", "b">>)} }

\* ord(c)
CodePoint(c) ==
    CASE c = " " -> 32 [] c = "A" -> 65 [] c = "B" -> 66
      [] c = "a" -> 97 [] c = "b" -> 98

\* s < t on str
RECURSIVE StrLess(_, _)
StrLess(s, t) ==
    IF t = <<>> THEN FALSE
    ELSE IF s = <<>> THEN TRUE
    ELSE IF s[1] = t[1] THEN StrLess(Tail(s), Tail(t))
    ELSE CodePoint(s[1]) < CodePoint(t[1])

\* The group keys in the order groupby (sort=True) lists them.
RECURSIVE SortedKeys(_)
SortedKeys(keys) ==
    IF keys = {} THEN <<>>
    ELSE LET first == CHOOSE k \in keys :
                          \A other \in keys \ {k} : StrLess(k.text, other.text)
         IN  <<first>> \o SortedKeys(keys \ {first})

\* Series.sum()
RECURSIVE FSum(_)
FSum(col) == IF col = <<>> THEN Num(0, 1) ELSE FAdd(Head(col), FSum(Tail(col)))

GroupMeanOverTable(rows, key, col, k) ==
    LET group == SelectSeq(rows, LAMBDA r : r[key] = k)
    IN  FDiv(FSum(Column(group, col)), Num(Len(rows), 1))

\* The mean of column col over the rows whose key is k.
GroupMean(rows, key, col, k) ==
    LET group == SelectSeq(rows, LAMBDA r : r[key] = k)
    IN  FDiv(FSum(Column(group, col)), Num(Len(group), 1))

\* rows.groupby(key)[col].mean(): one entry per key, in key order.
GroupByMean(rows, key, col) ==
    LET keys == SortedKeys(Observed(rows, key))
    IN  [i \in DOMAIN keys |->
            [key |-> keys[i], val |-> GroupMean(rows, key, col, keys[i])]]

Orderings(series) ==
    LET n == Len(series)
        bijections == {f \in [1..n -> 1..n] : \A i, j \in 1..n : i # j => f[i] # f[j]}
    IN  {[i \in 1..n |-> series[f[i]]] : f \in bijections}

Descending(series) ==
    \A i \in 1..(Len(series) - 1) : FLe(series[i + 1].val, series[i].val)

\* series.sort_values(ascending=False).  The default kind is quicksort,
\* which is not stable: the values come back in descending order, and the
\* order among entries with equal values is whatever the sort produces.
SortValues(series) == {s \in Orderings(series) : Descending(s)}

\* series.head(n)
HeadN(series, n) == SubSeq(series, 1, IF n < Len(series) THEN n ELSE Len(series))

\* The aggregate as a table again: one row per entry.
AsFrame(series) ==
    [i \in DOMAIN series |-> [Location |-> series[i].key, Rent |-> series[i].val]]

\* The rows of df[mask], without their index labels.
RowsOf(frame) == [i \in DOMAIN frame |-> frame[i].row]

\* dashboard.py just after df = load_data().
InitAgg ==
    /\ script = "dashboard"
    /\ df \in {BoardLoad(rows) : rows \in SeqsUpTo(AggRows, MaxAggRows)}
    /\ csv = [cols |-> {}, rows |-> <<>>]
    /\ l_done = <<"load_data">>
    /\ err = NoError
    /\ selected_locations = {}
    /\ df_filtered = <<>>
    /\ top_n \in 1..MaxTopN
    /\ sort_in = <<>>
    /\ sort_out = <<>>
    /\ avg_rent = <<>>
    /\ avg_rent_again = <<>>
    /\ a_pc = "sidebar"

\* The sidebar, the location filter and the key metrics.  With no row left
\* the mean rent is NaN and int() of it raises ValueError.
SelectLocations ==
    /\ a_pc = "sidebar"
    /\ \E selection \in SUBSET Observed(df, "Location") :
          LET kept == BoolIndex(df, IsIn(Column(df, "Location"), selection))
          IN  /\ selected_locations' = selection
              /\ df_filtered' = kept
              /\ a_pc' = IF kept = <<>> THEN "error" ELSE "filtered"
    /\ UNCHANGED <<top_n, sort_in, sort_out, avg_rent, avg_rent_again, notAgg>>

\* avg_rent = df_filtered.groupby("Location")["Rent"].mean()
\*                .sort_values(ascending=False).head(N)
TopRent ==
    /\ a_pc = "filtered"
    /\ LET means == GroupByMean(RowsOf(df_filtered), "Location", "Rent")
       IN  /\ sort_in' = means
           /\ \E sorted \in SortValues(means) :
                 /\ sort_out' = sorted
                 /\ avg_rent' = HeadN(sorted, top_n)
    /\ a_pc' = "aggregated"
    /\ UNCHANGED <<selected_locations, df_filtered, top_n, avg_rent_again, notAgg>>

\* The same aggregation applied to its own output.  The sort is the same
\* function as before: on the same series it returns the same order.
TopRentAgain ==
    /\ a_pc = "aggregated"
    /\ LET means == GroupByMean(AsFrame(avg_rent), "Location", "Rent")
       IN  \E sorted \in (IF means = sort_in THEN {sort_out} ELSE SortValues(means)) :
              avg_rent_again' = HeadN(sorted, top_n)
    /\ a_pc' = "reapplied"
    /\ UNCHANGED <<selected_locations, df_filtered, top_n, sort_in, sort_out,
                   avg_rent, notAgg>>

IdleAgg ==
    /\ selected_locations = {}
    /\ df_filtered = <<>>
    /\ top_n = 0
    /\ sort_in = <<>>
    /\ sort_out = <<>>
    /\ avg_rent = <<>>
    /\ avg_rent_again = <<>>
    /\ a_pc = "idle"

NextAgg == SelectLocations \/ TopRent \/ TopRentAgain

\* ----------------------------------------------------------- specifications

StartGuess == InitGuess /\ IdleDice /\ IdleLoad /\ IdleFilter /\ IdleAgg

SpecGuess == StartGuess /\ [][NextGuess]_vars

StartDice == InitDice /\ IdleGuess /\ IdleLoad /\ IdleFilter /\ IdleAgg

StartLoad == InitLoad /\ IdleGuess /\ IdleDice /\ IdleFilter /\ IdleAgg

SpecLoad == StartLoad /\ [][NextLoad]_vars

StartFilter == InitFilter /\ IdleGuess /\ IdleDice /\ IdleAgg

SpecFilter == StartFilter /\ [][NextFilter]_vars

SpecDice == StartDice /\ [][NextDice]_vars

StartAgg == InitAgg /\ IdleGuess /\ IdleDice /\ IdleFilter

SpecAgg == StartAgg /\ [][NextAgg]_vars

\* ------------------------------------------------------------------ claims

\* C1: in the number-guessing loop the line printed after an integer guess is
\* "Too high" when the guess is above the target, "Too low" when it is below
\* and the success message when it is equal; the loop has ended exactly when
\* the line last read is an integer guess equal to the target (so it ends on the
\* first such guess and on nothing else), and the target never changes.
C1_State ==
    /\ g_read = NothingRead => g_out = NoOutput /\ g_pc = "loop"
    /\ g_read = "other" => g_out = InvalidNumber /\ g_pc = "loop"
    /\ g_read = "int" /\ guessed_number > random_num =>
           g_out = TooHigh /\ g_pc = "loop"
    /\ g_read = "int" /\ guessed_number < random_num =>
           g_out = TooLow /\ g_pc = "loop"
    /\ g_read = "int" /\ guessed_number = random_num =>
           g_out = Bravo /\ g_pc = "done"

C1_GuessLoop ==
    /\ []C1_State
    /\ [][/\ random_num' = random_num
          /\ g_pc = "done" => g_pc' = "done"]_vars

\* C1 witness: target 50, the guess 50 has just ended the loop.
C1_Witness ==
    /\ random_num = 50
    /\ guessed_number = 50
    /\ g_out = Bravo
    /\ g_pc = "done"

\* C2 (as claimed): no prompt that expects an integer ends the game on a
\* non-integer line; the dice game is never ended by a ValueError.
C2_InvalidNumberReprompts == d_pc # "crashed"

RECURSIVE TotalUpTo(_, _)
TotalUpTo(s, i) == IF i = 0 THEN 0 ELSE TotalUpTo(s, i - 1) + s[i]

\* C3 (as claimed): a roll of N dice prints exactly N results, each in 1..6,
\* and the printed total is their sum.
C3_RollExactlyN ==
    d_out.msg = "You Rolled:" =>
        /\ Len(d_out.rolled) = choice_num
        /\ \A i \in 1..Len(d_out.rolled) : d_out.rolled[i] \in 1..6
        /\ d_out.total = TotalUpTo(d_out.rolled, Len(d_out.rolled))

\* C3 (amended): a roll of N >= 0 dice prints exactly N results and a roll of
\* N < 0 dice prints none; each result is in 1..6 and the printed total is
\* the sum of the printed results (0 for the empty list).
C3_RollAmended ==
    d_out.msg = "You Rolled:" =>
        /\ choice_num >= 0 => Len(d_out.rolled) = choice_num
        /\ choice_num < 0 => d_out.rolled = <<>> /\ d_out.total = 0
        /\ d_out.rolled = dice_result
        /\ \A i \in 1..Len(d_out.rolled) : d_out.rolled[i] \in 1..6
        /\ d_out.total = TotalUpTo(d_out.rolled, Len(d_out.rolled))

\* C3 witness: three dice were asked for and three were printed.
C3_Witness ==
    /\ d_out.msg = "You Rolled:"
    /\ choice_num = 3
    /\ Len(d_out.rolled) = 3
    /\ d_out.total = 11

\* The date column of each script's table.
DateColumn == IF script = "dash" THEN "INSTANCE_DATE" ELSE "Posted_date"
Loaded == "load_data" \in SeqRange(l_done)

\* C7 (as claimed): load_data() raises nothing, and for every loaded row
\* with a value and an area meter_price is value / area exactly when area is
\* nonzero and is NaN if and only if area == 0; roi_est of a row with a zero
\* denominator is an undefined marker.
C7_NaNIffZeroArea ==
    (Loaded /\ script = "dash") =>
        \A i \in DOMAIN df :
            LET r == df[i]
                v == r.TRANS_VALUE
                a == r.PROCEDURE_AREA
            IN  (IsNum(v) /\ IsNum(a)) =>
                /\ ~IsZero(a) =>
                      /\ IsNum(r.meter_price)
                      /\ r.meter_price.n * a.n * v.d = v.n * a.d * r.meter_price.d
                /\ r.meter_price = NaN <=> IsZero(a)
                /\ (IsZero(a) \/ IsZero(r.meter_price)) => r.roi_est.k \in {"nan", "inf"}

\* C7 (amended): load_data() raises nothing on a zero denominator.  With
\* value and area present and area nonzero, meter_price is value / area
\* exactly.  With area == 0 it is infinite (+inf for a positive value) for a
\* nonzero value and NaN for value == 0; it is NaN as well whenever value or
\* area is missing, and in no other case.  roi_est is NaN when area == 0 and
\* infinite when meter_price == 0; ROI of dashboard.py is Rent * 1200 / area
\* for a nonzero area, +inf for area == 0 and Rent > 0, NaN for 0 / 0.
C7_ZeroDenominators ==
    /\ csv.cols = RequiredColumns(script) => err = NoError
    /\ Loaded =>
            /\ script = "dash" => \A i \in DOMAIN df :
                LET r == df[i]
                    v == r.TRANS_VALUE
                    a == r.PROCEDURE_AREA
                IN  /\ (IsNum(v) /\ IsNum(a) /\ ~IsZero(a))
                         => /\ IsNum(r.meter_price)
                            /\ r.meter_price.n * a.n * v.d = v.n * a.d * r.meter_price.d
                    /\ r.meter_price = NaN <=>
                           (v = NaN \/ a = NaN \/ (IsZero(a) /\ IsZero(v)))
                    /\ (IsZero(a) /\ IsNum(v) /\ v.n > 0) => r.meter_price = PInf
                    /\ IsZero(a) => r.roi_est = NaN
                    /\ IsZero(r.meter_price) => r.roi_est.k = "inf"
            /\ script = "dashboard" => \A i \in DOMAIN df :
                LET r == df[i]
                    v == r.Rent
                    a == r.Area_in_sqft
                IN  /\ IsNum(v) /\ IsNum(a)
                    /\ ~IsZero(a) =>
                           /\ IsNum(r.ROI)
                           /\ r.ROI.n * a.n * v.d = 1200 * v.n * a.d * r.ROI.d
                    /\ (IsZero(a) /\ v.n > 0) => r.ROI = PInf
                    /\ (IsZero(a) /\ v.n = 0) => r.ROI = NaN

\* C7 witness: dash.py has loaded a row with value 3 and area 0 next to a
\* row with value 3 and area 2.
C7_Witness ==
    /\ Loaded
    /\ script = "dash"
    /\ \E i, j \in DOMAIN df :
          /\ df[i].TRANS_VALUE = Num(3, 1) /\ IsZero(df[i].PROCEDURE_AREA)
          /\ df[i].meter_price = PInf
          /\ df[j].TRANS_VALUE = Num(3, 1) /\ df[j].PROCEDURE_AREA = Num(2, 1)
          /\ df[j].meter_price = Num(3, 2)

\* C8 (as claimed): after each script's load_data() every date is a
\* Timestamp or has been coerced to NaT, and no row with a missing date is
\* left in the table.
C8_NoMissingDateAfterLoad ==
    Loaded => \A i \in DOMAIN df :
        /\ df[i][DateColumn].k \in {"ts", "nat"}
        /\ df[i][DateColumn] # NaT

\* C9 (as claimed): when the CSV file lacks a column the script requires,
\* loading fails: df is never bound, neither the filter nor the aggregation
\* runs, and the error raised names absent columns only.
C9_MissingColumnFailsLoad ==
    (RequiredColumns(script) \ csv.cols # {}) =>
        /\ ~Loaded
        /\ "filter" \notin SeqRange(l_done)
        /\ "aggregate" \notin SeqRange(l_done)
        /\ err # NoError =>
              err.columns # {} /\ err.columns \subseteq RequiredColumns(script) \ csv.cols

\* Row i of df is in filtered_df.
Kept(i) == \E j \in DOMAIN filtered_df : filtered_df[j].index = i

\* The four predicates of the filter on one row, with the current selection.
InAreas(r) == r.AREA_EN \in selected_areas
InTypes(r) == r.PROP_TYPE_EN \in selected_prop_types
InPrices(r) ==
    /\ r.TRANS_VALUE.k = "num"
    /\ price_range[1].n * r.TRANS_VALUE.d <= r.TRANS_VALUE.n * price_range[1].d
    /\ r.TRANS_VALUE.n * price_range[2].d <= price_range[2].n * r.TRANS_VALUE.d
InDates(r) ==
    /\ r.INSTANCE_DATE.k = "ts"
    /\ date_range[1] <= r.INSTANCE_DATE.day
    /\ r.INSTANCE_DATE.day <= date_range[2]

\* C4 (as claimed): an empty selection for locations, or for property
\* types, restricts nothing: every row that passes the other predicates is
\* kept.
C4_EmptySelectionKeepsAll ==
    f_pc = "filtered" =>
        /\ (script = "checkpoint" /\ selected_areas = {}) =>
               \A i \in DOMAIN df : Kept(i)
        /\ (script = "dash" /\ selected_areas = {}) =>
               \A i \in DOMAIN df :
                   (InTypes(df[i]) /\ InPrices(df[i]) /\ InDates(df[i])) => Kept(i)
        /\ (script = "dash" /\ selected_prop_types = {}) =>
               \A i \in DOMAIN df :
                   (InAreas(df[i]) /\ InPrices(df[i]) /\ InDates(df[i])) => Kept(i)

\* Every observed location and property type is selected and both ranges
\* are at their full extent.
FullSelection ==
    /\ selected_areas = Observed(df, "AREA_EN")
    /\ selected_prop_types = Observed(df, "PROP_TYPE_EN")
    /\ price_range = <<ColMin(df, "TRANS_VALUE"), ColMax(df, "TRANS_VALUE")>>
    /\ date_range = <<MinDate(df), MaxDate(df)>>

\* C5 (as claimed): with the full selection the filter of dash.py returns
\* the table itself: the same rows, the same row count.
C5_FullSelectionIsNoOp ==
    (f_pc = "filtered" /\ script = "dash" /\ FullSelection) =>
        /\ Len(filtered_df) = Len(df)
        /\ \A i \in DOMAIN df : filtered_df[i].row = df[i]

\* C6: filtered_df of dash.py holds exactly the rows of df that satisfy all
\* four predicates (location selected, property type selected, value within
\* the value range and date within the date range, endpoints included), each
\* once, unchanged and in the order of df.
C6_FilterExact ==
    (f_pc = "filtered" /\ script = "dash") =>
        /\ \A i \in DOMAIN df :
               Kept(i) <=> (InAreas(df[i]) /\ InTypes(df[i]) /\ InPrices(df[i])
                              /\ InDates(df[i]))
        /\ \A j \in DOMAIN filtered_df :
               /\ filtered_df[j].index \in DOMAIN df
               /\ filtered_df[j].row = df[filtered_df[j].index]
        /\ \A j, k \in DOMAIN filtered_df :
               j < k => filtered_df[j].index < filtered_df[k].index

\* C6 witness: of two rows the filter kept the one whose value and date sit
\* on the upper endpoints of the ranges and dropped the other.
C6_Witness ==
    /\ f_pc = "filtered"
    /\ script = "dash"
    /\ Len(df) = 2
    /\ Len(filtered_df) = 1
    /\ filtered_df[1].row.TRANS_VALUE = price_range[2]
    /\ price_range[1] # price_range[2]
    /\ filtered_df[1].row.INSTANCE_DATE = Timestamp(2, 18)
    /\ date_range = <<1, 2>>

\* The means of the kept groups are pairwise different.
DistinctMeans(series) ==
    \A i, j \in DOMAIN series : i # j => series[i].val # series[j].val

SameEntries(s, t) ==
    /\ Len(s) = Len(t)
    /\ {s[i] : i \in DOMAIN s} = {t[i] : i \in DOMAIN t}

\* C10 as stated: applying the aggregation (group by location, mean, sort
\* descending, top N) to its own output returns the same groups with the
\* same values in the same order, also when several groups have equal means.
C10_AggregateIdempotent ==
    a_pc = "reapplied" => avg_rent_again = avg_rent

\* C10, amended: applying the aggregation to its own output returns the
\* same groups with the same values, in descending order; the order is the
\* same as well when the first application cut no group off or the kept
\* groups have pairwise different means.
C10_AggregateAmended ==
    a_pc = "reapplied" =>
        /\ SameEntries(avg_rent_again, avg_rent)
        /\ Descending(avg_rent_again)
        /\ (Len(sort_in) <= top_n \/ DistinctMeans(avg_rent)) =>
               avg_rent_again = avg_rent

\* Two groups with equal means were kept, nothing was cut off, and the
\* aggregation has been applied to its own output.
C10_Witness ==
    /\ a_pc = "reapplied"
    /\ Len(avg_rent) = 2
    /\ Len(sort_in) = 2
    /\ avg_rent[1].val = avg_rent[2].val
    /\ Len(df_filtered) = 3
    /\ avg_rent_again = avg_rent

====
